---- MODULE Spec2Model ----
(***************************************************************************)
(* Inline diff review of the Base44 Sync extension: pull (normalize, line  *)
(* diff, markChanges), the pendingByDoc store, acceptChange, rejectChange   *)
(* and refreshDecorationsFor.                                               *)
(*                                                                         *)
(* Texts are sequences of one-character strings.  A document is modelled   *)
(* by its text with "\n" as its line terminator.                           *)
(***************************************************************************)
EXTENDS Integers, Sequences, FiniteSets, TLC

\* ------------------------------------------------------------------------
\* Bounds of the model
\* ------------------------------------------------------------------------
MaxLocalLines == 3
MaxRemoteLines == 2
MaxPulls == 2
MaxLines == 2

\* ------------------------------------------------------------------------
\* Characters and texts
\* ------------------------------------------------------------------------
NL == "\n"
CR == "\r"
SP == " "

IsWS(c) == c \in {" ", "\t"}

\* the subsequence of t at the indices in K, in order
SelectIdx(t, K) ==
  LET F[i \in 0..Len(t)] ==
        IF i = 0 THEN <<>>
        ELSE IF i \in K THEN Append(F[i-1], t[i]) ELSE F[i-1]
  IN F[Len(t)]

RECURSIVE Concat(_)
Concat(ss) == IF ss = <<>> THEN <<>> ELSE Head(ss) \o Concat(Tail(ss))

\* content.replace(/\r\n/g, "\n")
ReplaceCRLF(t) ==
  SelectIdx(t, {i \in 1..Len(t) : ~(t[i] = CR /\ i < Len(t) /\ t[i+1] = NL)})

\* content.replace(/[ \t]+\n/g, "\n")
StripWS(t) ==
  SelectIdx(t, {i \in 1..Len(t) :
     ~(IsWS(t[i]) /\ \E j \in (i+1)..Len(t) :
                        t[j] = NL /\ \A k \in i..(j-1) : IsWS(t[k]))})

normalize(content) == StripWS(ReplaceCRLF(content))

\* JavaScript's text.split('\n')
RECURSIVE SplitNL(_)
SplitNL(t) ==
  IF \A i \in 1..Len(t) : t[i] # NL THEN <<t>>
  ELSE LET i == CHOOSE k \in 1..Len(t) :
                  t[k] = NL /\ \A m \in 1..(k-1) : t[m] # NL
       IN <<SubSeq(t, 1, i-1)>> \o SplitNL(SubSeq(t, i+1, Len(t)))

EndsWithNL(t) == Len(t) > 0 /\ t[Len(t)] = NL

\* a line count that takes every piece of split('\n') for a line
LinesCountRaw(t) == Len(SplitNL(t))

\* text.split('\n').length - (text.endsWith('\n') ? 1 : 0)
LinesCount(t) == Len(SplitNL(t)) - (IF EndsWithNL(t) THEN 1 ELSE 0)

\* text.split("\n").length - 1
NewlineCount(t) == Len(SplitNL(t)) - 1

\* ------------------------------------------------------------------------
\* The host's text document: lines, positions, ranges, edits
\* ------------------------------------------------------------------------
Pos(l, c) == [line |-> l, character |-> c]
Rng(s, e) == [start |-> s, end |-> e]

DocLines(t) == SplitNL(t)
LineCount(t) == Len(DocLines(t))
\* text of the 0-based line l
LineText(t, l) == DocLines(t)[l + 1]

\* TextDocument.lineAt(l) throws for a line outside the document
LineAtThrows(t, l) == l < 0 \/ l >= LineCount(t)

\* lineAt(l).range.end: the end of the line without its line break
LineRangeEnd(t, l) == Pos(l, Len(DocLines(t)[l + 1]))

\* lineAt(l).rangeIncludingLineBreak.end
LineBreakEnd(t, l) ==
  IF l < LineCount(t) - 1 THEN Pos(l + 1, 0) ELSE Pos(l, Len(LineText(t, l)))

\* lineAt(l).range.end.character
LineEndChar(t, l) == Len(LineText(t, l))

\* new Position / new Range throw for a negative line or character
PositionThrows(l, c) == l < 0 \/ c < 0

\* TextDocument.validatePosition: clamp into the document
ValidatePosition(t, p) ==
  IF p.line >= LineCount(t)
    THEN Pos(LineCount(t) - 1, Len(LineText(t, LineCount(t) - 1)))
    ELSE Pos(p.line, IF p.character > Len(LineText(t, p.line))
                       THEN Len(LineText(t, p.line)) ELSE p.character)

PosLE(p, q) == p.line < q.line \/ (p.line = q.line /\ p.character <= q.character)

\* new Range(a, b) orders its two ends
MkRange(a, b) == IF PosLE(a, b) THEN Rng(a, b) ELSE Rng(b, a)

\* TextDocument.offsetAt on a validated position
RECURSIVE SumLen(_, _)
SumLen(ls, n) == IF n = 0 THEN 0 ELSE Len(ls[n]) + 1 + SumLen(ls, n - 1)
OffsetAt(t, p) ==
  LET q == ValidatePosition(t, p) IN SumLen(DocLines(t), q.line) + q.character

\* the text after replacing the (validated) range r by s
ReplaceRange(t, r, s) ==
  LET a == OffsetAt(t, r.start)
      b == OffsetAt(t, r.end)
      lo == IF a <= b THEN a ELSE b
      hi == IF a <= b THEN b ELSE a
  IN SubSeq(t, 1, lo) \o s \o SubSeq(t, hi + 1, Len(t))

\* ------------------------------------------------------------------------
\* The line differ (the "diff" package's diffLines)
\* ------------------------------------------------------------------------
\* diffLines' tokens: the lines of the text, each with its line terminator
Tokenize(t) ==
  LET P == SplitNL(t)
      n == Len(P)
  IN [i \in 1..(n-1) |-> Append(P[i], NL)] \o
     (IF P[n] = <<>> THEN <<>> ELSE <<P[n]>>)

RECURSIVE LcsLen(_, _)
LcsLen(o, n) ==
  IF o = <<>> \/ n = <<>> THEN 0
  ELSE IF Head(o) = Head(n) THEN 1 + LcsLen(Tail(o), Tail(n))
  ELSE LET x == LcsLen(Tail(o), n)
           y == LcsLen(o, Tail(n))
       IN IF x >= y THEN x ELSE y

\* the shortest edit scripts from the tokens o to the tokens n that follow
\* every run of common tokens as far as it goes (extractCommon)
RECURSIVE EditScripts(_, _)
EditScripts(o, n) ==
  IF o = <<>> THEN {[i \in 1..Len(n) |-> "add"]}
  ELSE IF n = <<>> THEN {[i \in 1..Len(o) |-> "rem"]}
  ELSE IF Head(o) = Head(n)
    THEN {<<"eq">> \o s : s \in EditScripts(Tail(o), Tail(n))}
  ELSE LET best == LcsLen(o, n) IN
    (IF LcsLen(Tail(o), n) = best
       THEN {<<"rem">> \o s : s \in EditScripts(Tail(o), n)} ELSE {})
    \cup (IF LcsLen(o, Tail(n)) = best
       THEN {<<"add">> \o s : s \in EditScripts(o, Tail(n))} ELSE {})

\* between two common lines the removals are output before the additions
RECURSIVE RemovesFirst(_, _, _)
RemovesFirst(ops, r, a) ==
  LET flush == [i \in 1..r |-> "rem"] \o [i \in 1..a |-> "add"] IN
  IF ops = <<>> THEN flush
  ELSE IF Head(ops) = "eq" THEN flush \o <<"eq">> \o RemovesFirst(Tail(ops), 0, 0)
  ELSE IF Head(ops) = "rem" THEN RemovesFirst(Tail(ops), r + 1, a)
  ELSE RemovesFirst(Tail(ops), r, a + 1)

\* the change objects of an edit script: runs of one kind joined into one part
RECURSIVE BuildValues(_, _, _, _)
BuildValues(ops, o, n, acc) ==
  IF ops = <<>> THEN acc
  ELSE LET op == Head(ops)
           tok == IF op = "rem" THEN Head(o) ELSE Head(n)
           o2 == IF op = "add" THEN o ELSE Tail(o)
           n2 == IF op = "rem" THEN n ELSE Tail(n)
           k == Len(acc)
           same == k > 0 /\ acc[k].added = (op = "add")
                         /\ acc[k].removed = (op = "rem")
           acc2 == IF same
                     THEN [acc EXCEPT ![k].value = @ \o tok]
                     ELSE Append(acc, [value |-> tok, added |-> (op = "add"),
                                       removed |-> (op = "rem")])
       IN BuildValues(Tail(ops), o2, n2, acc2)

\* Diff.diffLines(oldStr, newStr): the possible results, one per shortest
\* edit script (the package's choice among them is not fixed here)
diffLines(oldStr, newStr) ==
  LET o == Tokenize(oldStr)
      n == Tokenize(newStr)
  IN {BuildValues(RemovesFirst(s, 0, 0), o, n, <<>>) : s \in EditScripts(o, n)}

\* a pull without the guard before markChanges
GuardDropped(diffs) == TRUE

\* changes.some((c) => c.added || c.removed)
HasChanges(diffs) == \E i \in 1..Len(diffs) : diffs[i].added \/ diffs[i].removed

\* ------------------------------------------------------------------------
\* markChanges
\* ------------------------------------------------------------------------
NoDecos == [removed |-> <<>>, changed |-> <<>>, added |-> <<>>]

\* the range painted for a stored range that ends at column 0
TrimmedRange(t, range) ==
  MkRange(range.start,
          Pos(range.end.line - 1, LineEndChar(t, range.end.line - 1)))

\* a cursor that stops on the last line of the segment it has passed
CursorOnLastLine(li, cnt) == li + cnt - 1

\* li += removedLinesCount, li += linesCount, li += linesInPart
\* (lines 710, 742, 769)
CursorAfter(li, cnt) == li + cnt

\* one step of the segment scan; st = [i, li, nextId, pending, decos, threw]
MarkStep(t, diffs, st) ==
  LET part == diffs[st.i]
      merged == part.removed /\ st.i < Len(diffs) /\ diffs[st.i + 1].added
      cnt == LinesCount(part.value)
      endLine == st.li + cnt - 1
  IN
  IF part.removed THEN
    IF LineAtThrows(t, endLine) THEN [st EXCEPT !.threw = TRUE]
    ELSE
      LET range == MkRange(Pos(st.li, 0), LineBreakEnd(t, endLine))
          kind == IF merged THEN "changed" ELSE "removed"
          ch == [id |-> st.nextId, kind |-> kind, range |-> range,
                 remoteText |-> IF merged THEN diffs[st.i + 1].value ELSE <<>>]
          trim == range.end.character = 0
      IN IF trim /\ LineAtThrows(t, range.end.line - 1)
           THEN [st EXCEPT !.threw = TRUE]
           ELSE [i |-> st.i + (IF merged THEN 2 ELSE 1),
                 li |-> CursorAfter(st.li, cnt),
                 nextId |-> st.nextId + 1,
                 pending |-> Append(st.pending, ch),
                 decos |-> [st.decos EXCEPT ![kind] =
                     Append(@, [range |-> IF trim THEN TrimmedRange(t, range)
                                          ELSE range,
                                id |-> ch.id])],
                 threw |-> FALSE]
  ELSE IF part.added THEN
    LET range == Rng(Pos(st.li, 0), Pos(st.li, 0))
        ch == [id |-> st.nextId, kind |-> "added", range |-> range,
               remoteText |-> part.value]
        trim == range.end.line > 0
    IN IF trim /\ LineAtThrows(t, range.end.line - 1)
         THEN [st EXCEPT !.threw = TRUE]
         ELSE [st EXCEPT !.i = @ + 1,
                         !.nextId = @ + 1,
                         !.pending = Append(@, ch),
                         !.decos.added =
                            Append(@, [range |-> IF trim THEN TrimmedRange(t, range)
                                                 ELSE range,
                                       id |-> ch.id])]
  ELSE [st EXCEPT !.i = @ + 1, !.li = CursorAfter(@, cnt)]

RECURSIVE MarkScan(_, _, _)
MarkScan(t, diffs, st) ==
  IF st.threw \/ st.i > Len(diffs) THEN st
  ELSE MarkScan(t, diffs, MarkStep(t, diffs, st))

\* markChanges with a local counter that starts at 1 on every call
markChangesFromOne(t, diffs, nextId) ==
  MarkScan(t, diffs, [i |-> 1, li |-> 0, nextId |-> 1, pending |-> <<>>,
                      decos |-> NoDecos, threw |-> FALSE])

\* markChanges without the write-back of the local counter (line 772)
markChangesLocalIds(t, diffs, nextId) ==
  [MarkScan(t, diffs, [i |-> 1, li |-> 0, nextId |-> nextId,
                       pending |-> <<>>, decos |-> NoDecos, threw |-> FALSE])
     EXCEPT !.nextId = nextId]

\* markChanges(editor, diffs) on a document with text t, counter at nextId:
\* the list built, the annotations painted, the counter written back
markChanges(t, diffs, nextId) ==
  MarkScan(t, diffs, [i |-> 1, li |-> 0, nextId |-> nextId, pending |-> <<>>,
                      decos |-> NoDecos, threw |-> FALSE])

\* ------------------------------------------------------------------------
\* Inputs
\* ------------------------------------------------------------------------
Docs == {"d1", "d2"}
Absent == <<"<absent>">>
Closed == <<"<closed>">>

LocalLineForms == {<<"a", NL>>, <<"b", NL>>, <<"a", SP, NL>>}
RemoteLineForms == {<<"a", NL>>, <<"b", NL>>, <<"a", SP, CR, NL>>}
PlainLineForms == {<<"a", NL>>, <<"b", NL>>}
LastLineForms == {<<"a">>, <<"b">>}

\* the texts of at most n lines from forms, the last line with or without
\* its line terminator
Texts(forms, n) ==
  {Concat(s) : s \in UNION {[1..k -> forms] : k \in 0..n}}
  \cup {Concat(s) \o u : s \in UNION {[1..k -> forms] : k \in 0..(n-1)},
                         u \in LastLineForms}

\* ------------------------------------------------------------------------
\* State
\* ------------------------------------------------------------------------
VARIABLES
  disk,          \* file contents in the workspace, or Absent
  docText,       \* text of each open document, or Closed
  visible,       \* documents shown in a visible editor
  painted,       \* annotations last set on each document's editor
  nextChangeId,  \* the process-wide id counter
  pendingByDoc,  \* document -> array reference (0: no entry)
  arrays,        \* array reference -> addresses of its PendingChange objects
  objs,          \* address -> PendingChange object
  pull,          \* the pull command in flight
  hs,            \* the acceptChange invocations in flight
  notice,        \* messages shown or logged by the last step
  last,          \* the last step taken: [op, doc, id]
  pulls,         \* number of pulls started
  hist           \* history: the lists built, the accepts and rejects done

vars == <<disk, docText, visible, painted, nextChangeId, pendingByDoc,
          arrays, objs, pull, hs, notice, last, pulls, hist>>

Handlers == 1..2

Step(op) == [op |-> op, doc |-> "-", id |-> 0]
StepOn(op, d, id) == [op |-> op, doc |-> d, id |-> id]

IdlePull == [pc |-> "idle"]
IdleHandler == [pc |-> "idle"]

\* the PendingChange objects of an array, in order
ListOf(ref) == [i \in 1..Len(arrays[ref]) |-> objs[arrays[ref][i]]]

\* pendingByDoc.get(uri) as a list of records (<<>> when there is no entry)
Pending(d) == IF pendingByDoc[d] = 0 THEN <<>> ELSE ListOf(pendingByDoc[d])

\* findIndex whose -1 is not checked: splice(-1, 1) and pending[-1 + 1 ..]
\* then act on the last element
FindIndexUnchecked(list, id) ==
  IF \E i \in 1..Len(list) : list[i].id = id
    THEN CHOOSE i \in 1..Len(list) :
           list[i].id = id /\ \A j \in 1..(i-1) : list[j].id # id
    ELSE Len(list)

\* pending.findIndex((ch) => ch.id === id), 1-based, 0 when there is none
FindIndex(list, id) ==
  IF \E i \in 1..Len(list) : list[i].id = id
    THEN CHOOSE i \in 1..Len(list) :
           list[i].id = id /\ \A j \in 1..(i-1) : list[j].id # id
    ELSE 0

\* vscode.workspace.openTextDocument: an open document is reused, a closed
\* one is loaded from the file
OpenTextDocument(d) ==
  IF docText[d] # Closed THEN docText
  ELSE [docText EXCEPT ![d] = IF disk[d] = Absent THEN <<>>
                              ELSE ReplaceCRLF(disk[d])]

\* vscode.window.showTextDocument(doc, {preview: false}): the document's
\* editor becomes the visible one of the editor group
ShowTextDocument(d) == {d}

\* an editor that is no longer visible has lost its annotations
PaintedAfterShow(d) ==
  [e \in Docs |-> IF e = d \/ e \notin visible THEN painted[e] ELSE NoDecos]

InitWith(locals) ==
  /\ disk \in [Docs -> locals]
  /\ docText = [d \in Docs |-> Closed]
  /\ visible = {}
  /\ painted = [d \in Docs |-> NoDecos]
  /\ nextChangeId = 1
  /\ pendingByDoc = [d \in Docs |-> 0]
  /\ arrays = <<>>
  /\ objs = <<>>
  /\ pull = IdlePull
  /\ hs = [h \in Handlers |-> IdleHandler]
  /\ notice = {}
  /\ last = [op |-> "init", doc |-> "-", id |-> 0]
  /\ pulls = 0
  /\ hist = [built |-> <<>>, accepts |-> <<>>, applied |-> <<>>, rejects |-> {},
             partial |-> 0]

\* ------------------------------------------------------------------------
\* pullCmd
\* ------------------------------------------------------------------------
\* the end of one iteration of the per-file loop: the next file, or the
\* notification after the loop
PullAdvance(p, changed, msgs) ==
  IF p.k < Len(p.files)
    THEN /\ pull' = [p EXCEPT !.pc = "read", !.k = @ + 1,
                              !.changedFiles = changed, !.diffs = <<>>]
         /\ notice' = msgs
    ELSE /\ pull' = IdlePull
         /\ notice' = msgs \cup
              {IF changed > 0 THEN "Pull finished" ELSE "No changes found"}

\* fetchRemoteFiles resolved with fileMap
PullFetch(fileMap) ==
  /\ pull.pc = "idle"
  /\ last' = Step("pull:fetch")
  /\ pulls < MaxPulls
  /\ pulls' = pulls + 1
  /\ pull' = [pc |-> "read", files |-> fileMap, k |-> 1, changedFiles |-> 0,
              diffs |-> <<>>]
  /\ notice' = {}
  /\ UNCHANGED <<disk, docText, visible, painted, nextChangeId, pendingByDoc,
                 arrays, objs, hs, hist>>

\* fetchRemoteFiles threw
PullFetchFail ==
  /\ pull.pc = "idle"
  /\ last' = Step("pull:fetch-failed")
  /\ pulls < MaxPulls
  /\ pulls' = pulls + 1
  /\ notice' = {"Pull error"}
  /\ UNCHANGED <<disk, docText, visible, painted, nextChangeId, pendingByDoc,
                 arrays, objs, pull, hs, hist>>

\* a file that is missing locally is created empty
ensureEmptyFile(file, content) == IF file = Absent THEN <<>> ELSE file

\* the file on disk after ensureLocalFileExists(filePath, content)
ensureLocalFileExists(file, content) == IF file = Absent THEN content ELSE file

\* ensureLocalFileExists, readFile, normalize, diffLines
PullRead ==
  /\ pull.pc = "read"
  /\ last' = Step("pull:read")
  /\ LET f == pull.files[pull.k]
         created == disk[f.doc] = Absent
         content == ensureLocalFileExists(disk[f.doc], f.remote)
     IN /\ disk' = [disk EXCEPT ![f.doc] = content]
        /\ \E changes \in diffLines(normalize(content), normalize(f.remote)) :
             IF HasChanges(changes)
               THEN /\ pull' = [pull EXCEPT !.pc = "open", !.diffs = changes]
                    /\ notice' = IF created THEN {"New file created"} ELSE {}
               ELSE PullAdvance(pull, pull.changedFiles,
                                IF created THEN {"New file created"} ELSE {})
  /\ UNCHANGED <<docText, visible, painted, nextChangeId, pendingByDoc,
                 arrays, objs, hs, pulls, hist>>

\* openTextDocument resolved
PullOpen ==
  /\ pull.pc = "open"
  /\ last' = Step("pull:open")
  /\ docText' = OpenTextDocument(pull.files[pull.k].doc)
  /\ pull' = [pull EXCEPT !.pc = "show"]
  /\ notice' = {}
  /\ UNCHANGED <<disk, visible, painted, nextChangeId, pendingByDoc,
                 arrays, objs, hs, pulls, hist>>

\* a Map.set that keeps the previous value in front of the new one
MapSetMerged(prev, fresh) == prev \o fresh

\* pendingByDoc.set(docUri.toString(), pending) (line 773): the value stored
\* for a key that had the value prev (<<>> when it had none)
MapSet(prev, fresh) == fresh

\* a markChanges that counts on the global counter while it builds
PublishedEagerly(r, prev) == r.nextId

\* nextChangeId = nextChangeIdLocal (line 772), reached only when the scan
\* r has not thrown: the value of the global counter after markChanges
Published(r, prev) == IF r.threw THEN prev ELSE r.nextId

\* showTextDocument resolved, then markChanges(editor, changes)
PullShow ==
  /\ pull.pc = "show"
  /\ last' = Step(IF markChanges(docText[pull.files[pull.k].doc], pull.diffs,
                               nextChangeId).threw
                  THEN "pull:threw" ELSE "pull:marked")
  /\ LET d == pull.files[pull.k].doc
         r == markChanges(docText[d], pull.diffs, nextChangeId)
         n == Len(objs)
     IN /\ visible' = ShowTextDocument(d)
        /\ IF r.threw
             THEN /\ pull' = IdlePull
                  /\ notice' = {"Pull error"}
                  /\ painted' = PaintedAfterShow(d)
                  /\ nextChangeId' = Published(r, nextChangeId)
                  /\ hist' = [hist EXCEPT !.partial = Len(r.pending)]
                  /\ UNCHANGED <<pendingByDoc, arrays, objs>>
             ELSE /\ nextChangeId' = Published(r, nextChangeId)
                  /\ objs' = objs \o r.pending
                  /\ arrays' = Append(arrays,
                       MapSet(IF pendingByDoc[d] = 0 THEN <<>>
                              ELSE arrays[pendingByDoc[d]],
                              [i \in 1..Len(r.pending) |-> n + i]))
                  /\ pendingByDoc' = [pendingByDoc EXCEPT ![d] = Len(arrays) + 1]
                  /\ painted' = [PaintedAfterShow(d) EXCEPT ![d] = r.decos]
                  /\ hist' = [hist EXCEPT
                       !.built = Append(@, [doc |-> d,
                                            local |-> normalize(disk[d]),
                                            remote |-> normalize(pull.files[pull.k].remote),
                                            text |-> docText[d],
                                            list |-> r.pending]),
                       !.accepts = @ \o [i \in 1..Len(r.pending) |-> 0],
                       !.applied = @ \o [i \in 1..Len(r.pending) |-> 0]]
                  /\ PullAdvance(pull, pull.changedFiles + 1, {})
  /\ UNCHANGED <<disk, docText, hs, pulls>>

\* ------------------------------------------------------------------------
\* acceptChangeCmd
\* ------------------------------------------------------------------------
ValidateRange(t, r) ==
  MkRange(ValidatePosition(t, r.start), ValidatePosition(t, r.end))

\* lines 961-972: the line delta of accepting ch
LineDelta(ch) ==
  IF ch.kind = "removed"
    THEN -(ch.range.end.line - ch.range.start.line + 1)
  ELSE IF ch.kind = "changed"
    THEN NewlineCount(ch.remoteText) - (ch.range.end.line - ch.range.start.line)
  ELSE NewlineCount(ch.remoteText)

\* an edit callback that appends the text of an added change to the document
EditOfAppending(t, ch) ==
  IF ch.kind = "removed"
    THEN [range |-> ValidateRange(t, ch.range), text |-> <<>>]
  ELSE IF ch.kind = "changed"
    THEN [range |-> ValidateRange(t, ch.range), text |-> ch.remoteText]
  ELSE [range |-> ValidateRange(t, Rng(Pos(LineCount(t), 0),
                                       Pos(LineCount(t), 0))),
        text |-> ch.remoteText]

\* lines 974-982: the edit the callback builds on the document text t
EditOf(t, ch) ==
  IF ch.kind = "removed"
    THEN [range |-> ValidateRange(t, ch.range), text |-> <<>>]
  ELSE IF ch.kind = "changed"
    THEN [range |-> ValidateRange(t, ch.range), text |-> ch.remoteText]
  ELSE [range |-> ValidateRange(t, Rng(ch.range.start, ch.range.start)),
        text |-> ch.remoteText]

\* a re-anchor loop that moves the start line only
RECURSIVE ReanchorStartOnly(_, _, _, _)
ReanchorStartOnly(o, arr, i, lineDelta) ==
  IF i > Len(arr) THEN [objs |-> o, threw |-> FALSE]
  ELSE LET other == o[arr[i]]
           newStart == other.range.start.line + lineDelta
       IN IF PositionThrows(newStart, other.range.start.character)
            THEN [objs |-> o, threw |-> TRUE]
            ELSE ReanchorStartOnly(
                   [o EXCEPT ![arr[i]].range.start.line = newStart],
                   arr, i + 1, lineDelta)

\* lines 984-995: the re-anchor loop from the 1-based position i of arr on
RECURSIVE Reanchor(_, _, _, _)
Reanchor(o, arr, i, lineDelta) ==
  IF i > Len(arr) THEN [objs |-> o, threw |-> FALSE]
  ELSE LET other == o[arr[i]]
           newStart == other.range.start.line + lineDelta
           newEnd == other.range.end.line + lineDelta
       IN IF PositionThrows(newStart, other.range.start.character)
             \/ PositionThrows(newEnd, other.range.end.character)
            THEN [objs |-> o, threw |-> TRUE]
            ELSE Reanchor(
                   [o EXCEPT ![arr[i]].range =
                      MkRange(Pos(newStart, other.range.start.character),
                              Pos(newEnd, other.range.end.character))],
                   arr, i + 1, lineDelta)

\* a re-anchor loop that starts at the first change of the list
LoopFromFirst(idx) == 1

\* let i = idx + 1 (line 984): the 1-based position the loop starts at,
\* for the accepted change at the 1-based position idx
LoopStart(idx) == idx + 1

\* pending.splice(idx): everything from the 1-based position i on goes
SpliceToEnd(arr, i) == SubSeq(arr, 1, i - 1)

\* a splice that removes nothing
SpliceNone(arr, i) == arr

\* pending.splice(idx, 1) with the 1-based position i
Splice(arr, i) ==
  IF i > Len(arr) THEN arr
  ELSE SubSeq(arr, 1, i - 1) \o SubSeq(arr, i + 1, Len(arr))

\* a store update that sets the list whatever its length
EntryAlwaysSet(ref, left) == ref

\* lines 998-999 and 1041-1042: the entry of the document after the splice
\* left the list `left` in the array ref (0: the entry is deleted)
EntryAfter(ref, left) == IF left = <<>> THEN 0 ELSE ref

\* lines 1001-1016 and 1049-1064: the three groups painted from a list
GroupsOf(list) ==
  [k \in {"removed", "changed", "added"} |->
     LET sel == SelectSeq(list, LAMBDA c : c.kind = k)
     IN [i \in 1..Len(sel) |-> [range |-> sel[i].range, id |-> sel[i].id]]]

\* an accept that announces completion whatever is left
CompletionAlways(left) == {"All changes accepted"}

\* lines 1018-1022: the notification after the splice left the list `left`
Completion(left) == IF left = <<>> THEN {"All changes accepted"} ELSE {}

\* the command starts: lookup of the list and of the change (lines 948-955)
AcceptStart(h, d, id) ==
  /\ hs[h].pc = "idle"
  /\ last' = IF pendingByDoc[d] = 0 THEN StepOn("accept:no-entry", d, 0)
             ELSE IF FindIndex(ListOf(pendingByDoc[d]), id) = 0
               THEN StepOn("accept:no-id", d, id)
               ELSE StepOn("accept:start", d, id)
  /\ LET ref == pendingByDoc[d]
         idx == IF ref = 0 THEN 0 ELSE FindIndex(ListOf(ref), id)
     IN hs' = IF idx = 0 THEN hs
              ELSE [hs EXCEPT ![h] = [pc |-> "open", doc |-> d, id |-> id,
                                      pending |-> ref, idx |-> idx,
                                      ch |-> arrays[ref][idx]]]
  /\ notice' = {}
  /\ UNCHANGED <<disk, docText, visible, painted, nextChangeId, pendingByDoc,
                 arrays, objs, pull, pulls, hist>>

\* openTextDocument resolved (line 956)
AcceptOpen(h) ==
  /\ hs[h].pc = "open"
  /\ last' = StepOn("accept:open", hs[h].doc, hs[h].id)
  /\ docText' = OpenTextDocument(hs[h].doc)
  /\ hs' = [hs EXCEPT ![h].pc = "show"]
  /\ notice' = {}
  /\ UNCHANGED <<disk, visible, painted, nextChangeId, pendingByDoc,
                 arrays, objs, pull, pulls, hist>>

\* showTextDocument resolved; lineDelta is computed and editor.edit builds
\* the edit against the document as it is now (lines 957-982)
AcceptShow(h) ==
  /\ hs[h].pc = "show"
  /\ last' = StepOn("accept:show", hs[h].doc, hs[h].id)
  /\ LET d == hs[h].doc
         ch == objs[hs[h].ch]
     IN /\ visible' = ShowTextDocument(d)
        /\ painted' = PaintedAfterShow(d)
        /\ hs' = [hs EXCEPT ![h] =
                    [pc |-> "edit", doc |-> d, id |-> hs[h].id,
                     pending |-> hs[h].pending, idx |-> hs[h].idx,
                     ch |-> hs[h].ch, lineDelta |-> LineDelta(ch),
                     edit |-> EditOf(docText[d], ch), fresh |-> TRUE]]
  /\ notice' = {}
  /\ UNCHANGED <<disk, docText, nextChangeId, pendingByDoc, arrays, objs,
                 pull, pulls, hist>>

\* editor.edit resolved: the host applied the edit unless the document
\* changed after the edit was built; then lines 984-1022
AcceptEdit(h) ==
  /\ hs[h].pc = "edit"
  /\ last' = StepOn(IF Reanchor(objs, arrays[hs[h].pending],
                                LoopStart(hs[h].idx), hs[h].lineDelta).threw
                    THEN "accept:threw" ELSE "accept:done", hs[h].doc, hs[h].id)
  /\ LET d == hs[h].doc
         ref == hs[h].pending
         r == Reanchor(objs, arrays[ref], LoopStart(hs[h].idx),
                       hs[h].lineDelta)
         left == Splice(arrays[ref], hs[h].idx)
         list == [i \in 1..Len(left) |-> r.objs[left[i]]]
     IN /\ docText' = IF hs[h].fresh
                        THEN [docText EXCEPT ![d] =
                                ReplaceRange(@, hs[h].edit.range, hs[h].edit.text)]
                        ELSE docText
        /\ hs' = [g \in Handlers |->
                    IF g = h THEN IdleHandler
                    ELSE IF hs[g].pc = "edit" /\ hs[g].doc = d /\ hs[h].fresh
                      THEN [hs[g] EXCEPT !.fresh = FALSE]
                    ELSE hs[g]]
        /\ objs' = r.objs
        /\ hist' = [hist EXCEPT
             !.accepts[hs[h].ch] = IF @ < 2 THEN @ + 1 ELSE @,
             !.applied[hs[h].ch] = IF hs[h].fresh /\ @ < 2 THEN @ + 1 ELSE @]
        /\ IF r.threw
             THEN /\ notice' = {"acceptChange error"}
                  /\ UNCHANGED <<arrays, pendingByDoc, painted>>
             ELSE /\ arrays' = [arrays EXCEPT ![ref] = left]
                  /\ pendingByDoc' =
                       [pendingByDoc EXCEPT ![d] = EntryAfter(ref, left)]
                  /\ painted' = IF d \in visible
                                  THEN [painted EXCEPT ![d] = GroupsOf(list)]
                                  ELSE painted
                  /\ notice' = Completion(left)
  /\ UNCHANGED <<disk, visible, nextChangeId, pull, pulls>>

\* ------------------------------------------------------------------------
\* rejectChangeCmd (no await: one step)
\* ------------------------------------------------------------------------
RejectChange(d, id) ==
  /\ last' = IF pendingByDoc[d] = 0 THEN StepOn("reject:no-entry", d, 0)
             ELSE IF FindIndex(ListOf(pendingByDoc[d]), id) = 0
               THEN StepOn("reject:no-id", d, id)
               ELSE StepOn("reject:done", d, id)
  /\ LET ref == pendingByDoc[d]
         idx == IF ref = 0 THEN 0 ELSE FindIndex(ListOf(ref), id)
     IN IF idx = 0
          THEN UNCHANGED <<pendingByDoc, arrays, painted, hist>>
          ELSE LET left == Splice(arrays[ref], idx)
                   list == [i \in 1..Len(left) |-> objs[left[i]]]
               IN /\ hist' = [hist EXCEPT !.rejects = @ \cup {arrays[ref][idx]}]
                  /\ arrays' = [arrays EXCEPT ![ref] = left]
                  /\ pendingByDoc' =
                       [pendingByDoc EXCEPT ![d] = EntryAfter(ref, left)]
                  /\ painted' = IF d \in visible
                                  THEN [painted EXCEPT ![d] = GroupsOf(list)]
                                  ELSE painted
  /\ notice' = {}
  /\ UNCHANGED <<disk, docText, visible, nextChangeId, objs, pull, hs, pulls>>

\* ------------------------------------------------------------------------
\* refreshDecorationsFor (onDidChangeActiveTextEditor)
\* ------------------------------------------------------------------------
\* the range painted for ch on the document text t (lines 645-649)
DecoRange(t, ch) ==
  IF ch.range.end.character = 0 THEN TrimmedRange(t, ch.range) ELSE ch.range

DecoThrows(t, ch) ==
  ch.range.end.character = 0 /\ LineAtThrows(t, ch.range.end.line - 1)

\* a refresh that takes any editor of the document, shown or not
AnyEditor(d) == TRUE

\* visibleTextEditors.find(e => e.document.uri.toString() === docUri.toString())
VisibleEditor(d) == d \in visible

refreshDecorationsFor(d) ==
  /\ last' = StepOn("refresh", d, 0)
  /\ IF ~VisibleEditor(d)
       THEN UNCHANGED painted /\ notice' = {}
       ELSE LET list == Pending(d)
                t == docText[d]
            IN IF \E i \in 1..Len(list) : DecoThrows(t, list[i])
                 THEN UNCHANGED painted /\ notice' = {"unhandled rejection"}
                 ELSE /\ painted' = [painted EXCEPT ![d] =
                           GroupsOf([i \in 1..Len(list) |->
                              [list[i] EXCEPT !.range = DecoRange(t, list[i])]])]
                      /\ notice' = {}
  /\ UNCHANGED <<disk, docText, visible, nextChangeId, pendingByDoc, arrays,
                 objs, pull, hs, pulls, hist>>

\* what a step writes with console.error, or what the host logs for a
\* rejected promise, instead of showing it (lines 1024, 1066, 1082)
Logged == {"acceptChange error", "rejectChange error", "unhandled rejection"}

\* the notifications the last step showed to the user
Shown == notice \ Logged

\* ------------------------------------------------------------------------
\* Specifications
\* ------------------------------------------------------------------------
\* no command is suspended at an await
Quiet == pull.pc = "idle" /\ \A h \in Handlers : hs[h].pc = "idle"

\* the ids a hover link can carry, and one that was never handed out
Ids == 1..nextChangeId

\* the lowest free invocation slot
FreeSlot(h) == hs[h].pc = "idle" /\ \A g \in Handlers : g < h => hs[g].pc # "idle"

\* one document is pulled once and reviewed, each command completing before
\* the next one starts
ReviewLocals == Texts(LocalLineForms, MaxLocalLines)
ReviewRemotes == Texts(RemoteLineForms, MaxRemoteLines)

ReviewInit ==
  /\ InitWith(ReviewLocals)
  /\ disk["d2"] = <<>>

ReviewNext ==
  \/ \E r \in ReviewRemotes :
       pulls = 0 /\ PullFetch(<<[doc |-> "d1", remote |-> r]>>)
  \/ PullRead
  \/ PullOpen
  \/ PullShow
  \/ \E id \in Ids : Quiet /\ AcceptStart(1, "d1", id)
  \/ AcceptOpen(1)
  \/ AcceptShow(1)
  \/ AcceptEdit(1)
  \/ \E id \in Ids : Quiet /\ RejectChange("d1", id)
  \/ Quiet /\ refreshDecorationsFor("d1")

ReviewSpec == ReviewInit /\ [][ReviewNext]_vars

\* two documents, repeated pulls, commands interleaving at their awaits
PlainTexts(n) ==
  {Concat(s) : s \in UNION {[1..k -> PlainLineForms] : k \in 0..n}}

\* the second document is one line shorter than the first
LinesOf(d) == IF d = "d1" THEN MaxLines ELSE MaxLines - 1

Init ==
  /\ InitWith({Absent, <<"a", NL>>, <<"a", NL, "b", NL>>})
  /\ disk["d1"] \in {Absent, <<"a", NL, "b", NL>>}
  /\ disk["d2"] = <<"a", NL>>

Next ==
  \/ \E d \in Docs : \E r \in PlainTexts(LinesOf(d)) :
       PullFetch(<<[doc |-> d, remote |-> r]>>)
  \/ PullFetchFail
  \/ PullRead
  \/ PullOpen
  \/ PullShow
  \/ \E d \in Docs, id \in Ids : AcceptStart(1, d, id)
  \/ AcceptOpen(1)
  \/ AcceptShow(1)
  \/ AcceptEdit(1)
  \/ \E d \in Docs, id \in Ids : RejectChange(d, id)

Spec == Init /\ [][Next]_vars

\* one document with four pending changes, pulled once; two invocations of
\* the accept command overlap at their awaits
RaceLocals == {<<"a", NL, "c", NL, "c", NL, "a", NL, "a", NL>>}
RaceRemotes == {<<"b", NL, "a", NL, "a", NL, "b", NL, "a", NL, "b", NL>>}

RaceInit ==
  /\ InitWith(RaceLocals \cup {Absent})
  /\ disk["d1"] \in RaceLocals
  /\ disk["d2"] = Absent

RaceNext ==
  \/ \E r \in RaceRemotes :
       pulls = 0 /\ PullFetch(<<[doc |-> "d1", remote |-> r]>>)
  \/ PullRead
  \/ PullOpen
  \/ PullShow
  \/ \E h \in Handlers, id \in Ids :
       pull.pc = "idle" /\ FreeSlot(h) /\ AcceptStart(h, "d1", id)
  \/ \E h \in Handlers : AcceptOpen(h)
  \/ \E h \in Handlers : AcceptShow(h)
  \/ \E h \in Handlers : AcceptEdit(h)

RaceSpec == RaceInit /\ [][RaceNext]_vars

\* two documents pulled one after the other, so that the first one is
\* hidden behind the second; the active editor changes between commands
HiddenNext ==
  \/ \E d \in Docs : \E r \in PlainTexts(LinesOf(d)) :
       PullFetch(<<[doc |-> d, remote |-> r]>>)
  \/ PullRead
  \/ PullOpen
  \/ PullShow
  \/ \E d \in Docs : Quiet /\ refreshDecorationsFor(d)

HiddenSpec == Init /\ [][HiddenNext]_vars

\* ------------------------------------------------------------------------
\* History of the lists built by markChanges
\* ------------------------------------------------------------------------
\* the r-th list built occupies the addresses BaseAddr(r)+1 .. of objs
RECURSIVE BaseAddr(_)
BaseAddr(r) ==
  IF r = 1 THEN 0 ELSE BaseAddr(r - 1) + Len(hist.built[r - 1].list)

AddrOf(r, i) == BaseAddr(r) + i
BuiltIdx(r) == 1..Len(hist.built[r].list)
Built == 1..Len(hist.built)

\* the i-th change of list r is still in the list
Remaining(r, i) == \E k \in 1..Len(arrays[r]) : arrays[r][k] = AddrOf(r, i)

\* the i-th change of list r was accepted, and its edit applied, once
Accepted(r, i) ==
  /\ hist.accepts[AddrOf(r, i)] = 1
  /\ hist.applied[AddrOf(r, i)] = 1
  /\ AddrOf(r, i) \notin hist.rejects

\* every change of list r was accepted once and none rejected
AcceptedOnce(r) == \A i \in BuiltIdx(r) : Accepted(r, i)

\* C1: after a pull, once every pending change of the document has been
\* accepted (in whatever order), the document text equals the normalized
\* remote text.  Stated for a local file that is already in normalized
\* form, so that the document opened from disk is the text that was diffed.
RoundTrip ==
  \A r \in Built :
    (Quiet /\ AcceptedOnce(r) /\ hist.built[r].text = hist.built[r].local)
      => docText[hist.built[r].doc] = hist.built[r].remote

\* the document lines a pending change covers
SpannedLines(c) ==
  IF c.kind = "added" THEN 0
  ELSE IF c.range.end.character = 0 /\ c.range.end.line > c.range.start.line
    THEN c.range.end.line - c.range.start.line
  ELSE c.range.end.line - c.range.start.line + 1

\* the number of lines by which accepting c moves the text that follows it
TrueDelta(c) ==
  IF c.kind = "removed" THEN -SpannedLines(c)
  ELSE LinesCount(c.remoteText) - SpannedLines(c)

\* the lines by which the accepted changes before position i of list r have
\* moved the text at position i
RECURSIVE ShiftBefore(_, _)
ShiftBefore(r, i) ==
  IF i = 1 THEN 0
  ELSE ShiftBefore(r, i - 1)
       + (IF hist.applied[AddrOf(r, i - 1)] > 0
            THEN TrueDelta(hist.built[r].list[i - 1]) ELSE 0)

\* where the text the i-th change of list r was computed for is now
ExpectedRange(r, i) ==
  LET o == hist.built[r].list[i].range
      k == ShiftBefore(r, i)
  IN Rng(Pos(o.start.line + k, o.start.character),
         Pos(o.end.line + k, o.end.character))

\* C2: after every accept and reject, each change that remains pending has
\* a range that covers, in the current document, the text it was computed
\* for.
Anchored ==
  Quiet =>
    \A d \in Docs :
      pendingByDoc[d] # 0 =>
        LET r == pendingByDoc[d]
        IN \A i \in BuiltIdx(r) :
             Remaining(r, i) => objs[AddrOf(r, i)].range = ExpectedRange(r, i)

\* the text after accepting, from the last position down to position i, the
\* changes of list r that have been accepted: in that order no accepted
\* change precedes a pending one, so no range has been re-anchored
RECURSIVE ApplyDesc(_, _)
ApplyDesc(r, i) ==
  IF i > Len(hist.built[r].list) THEN hist.built[r].text
  ELSE LET t == ApplyDesc(r, i + 1)
           e == EditOf(t, hist.built[r].list[i])
       IN IF Accepted(r, i) THEN ReplaceRange(t, e.range, e.text) ELSE t

\* the line shift the accepted changes before position i of list r produce
\* when they are accepted from the last one down
RECURSIVE ShiftDesc(_, _)
ShiftDesc(r, i) ==
  IF i = 1 THEN 0
  ELSE ShiftDesc(r, i - 1)
       + (IF Accepted(r, i - 1)
            THEN LineDelta(hist.built[r].list[i - 1]) ELSE 0)

\* every change of list r is pending, rejected, or accepted once
Settled(r) ==
  \A i \in BuiltIdx(r) :
    \/ Accepted(r, i)
    \/ hist.accepts[AddrOf(r, i)] = 0

\* C3: the changes of one pull resolved in any order give the same document
\* text and the same remaining ranges: whatever order was taken, the text
\* and the ranges are those of accepting the same changes from the last one
\* down.
OrderIndependent ==
  \A r \in Built :
    (Quiet /\ Settled(r)) =>
      /\ docText[hist.built[r].doc] = ApplyDesc(r, 1)
      /\ \A i \in BuiltIdx(r) :
           Remaining(r, i) =>
             LET o == hist.built[r].list[i].range
                 k == ShiftDesc(r, i)
             IN objs[AddrOf(r, i)].range =
                  Rng(Pos(o.start.line + k, o.start.character),
                      Pos(o.end.line + k, o.end.character))

\* the ids of a list of addresses
IdsOf(arr) == {objs[arr[k]].id : k \in 1..Len(arr)}

RejectRemovesOne ==
  [][last'.op = "reject:done" =>
       LET ref == pendingByDoc[last'.doc]
           arr == arrays[ref]
       IN /\ last'.id \in IdsOf(arr)
          /\ arrays'[ref] = SelectSeq(arr, LAMBDA a : objs[a].id # last'.id)
          /\ objs' = objs
          /\ docText' = docText
          /\ \A r \in 1..Len(arrays) : r # ref => arrays'[r] = arrays[r]]_vars

\* a reject removed a change that was not the last of a list still pending
RejectedOne ==
  /\ last.op = "reject:done"
  /\ \E k \in 1..Len(Pending(last.doc)) : Pending(last.doc)[k].id > last.id

\* the step is an accept or reject command starting on document d with id
Invoked(d, id) ==
  /\ last'.doc = d
  /\ last'.op \in {"accept:no-entry", "accept:no-id", "accept:start",
                   "reject:no-entry", "reject:no-id", "reject:done"}
  /\ last'.id = id \/ last'.op \in {"accept:no-entry", "reject:no-entry"}

\* the ids in the list the store holds for d
PendingIds(d) == {Pending(d)[k].id : k \in 1..Len(Pending(d))}

\* C6: an accept or reject for a document without a store entry, or with an
\* id that is not in the document's list, changes nothing: the store, the
\* texts and the painted annotations stay as they are, the command does not
\* continue, and no notification is shown.
MissIsNoOp ==
  [][\A d \in Docs, id \in Ids :
       (Invoked(d, id) /\ id \notin PendingIds(d))
         => /\ UNCHANGED <<pendingByDoc, arrays, objs, docText, disk,
                           painted, visible, hs, nextChangeId>>
            /\ notice' = {}]_vars

\* a command found a list of several changes without its id, while the
\* other document has no entry
Missed ==
  /\ last.op \in {"accept:no-id", "reject:no-id"}
  /\ last.id \notin PendingIds(last.doc)
  /\ Len(Pending(last.doc)) > 1
  /\ \E d \in Docs : pendingByDoc[d] = 0

\* the ids of the superseded lists of d: the lists that a later pull of d
\* has replaced in the store and that the store does not hold
StaleIds(d) ==
  UNION {{hist.built[r].list[k].id : k \in BuiltIdx(r)} :
           r \in {q \in Built :
                    /\ hist.built[q].doc = d
                    /\ pendingByDoc[d] # q
                    /\ \E p \in Built : p > q /\ hist.built[p].doc = d}}

AppliedOnce == \A a \in 1..Len(objs) : hist.applied[a] <= 1

\* C9: every id markChanges hands out is greater than every id handed out
\* before it, so no two changes ever stored share an id.
UniqueIds ==
  /\ \A a \in 1..Len(objs), b \in 1..Len(objs) :
       a < b => objs[a].id < objs[b].id
  /\ \A a \in 1..Len(objs) : objs[a].id < nextChangeId

\* two pulls have stored changes, for two documents that both have pending
\* changes now
TwoLists ==
  /\ Len(hist.built) = 2
  /\ \A d \in Docs : pendingByDoc[d] # 0
  /\ Len(objs) > 2

\* C10: in every reachable state the ranges of each stored list are in
\* ascending order of start line and do not overlap.
Ordered ==
  \A d \in Docs :
    LET l == Pending(d)
    IN \A i \in 1..Len(l), j \in 1..Len(l) :
         i < j => /\ l[i].range.start.line <= l[j].range.start.line
                  /\ PosLE(l[i].range.end, l[j].range.start)

\* C11: when markChanges runs for a document that has a store entry, the
\* entry afterwards is the list just built, in build order, and holds no
\* change of the previous list.
FullReplacement ==
  [][(pull.pc = "show" /\ last'.op = "pull:marked") =>
       LET d == pull.files[pull.k].doc
           old == Pending(d)
           new == arrays'[pendingByDoc'[d]]
           built == nextChangeId' - nextChangeId
       IN /\ pendingByDoc'[d] # 0
          /\ built > 0
          /\ new = [k \in 1..built |-> Len(objs) + k]
          /\ \A k \in 1..built : objs'[new[k]].id = nextChangeId + k - 1
          /\ \A k \in 1..built, j \in 1..Len(old) :
               objs'[new[k]].id # old[j].id]_vars

\* markChanges has just replaced a list that still had pending changes
Replaced ==
  /\ last.op = "pull:marked"
  /\ Len(hist.built) = 2
  /\ hist.built[1].doc = hist.built[2].doc
  /\ arrays[1] # <<>>
  /\ pendingByDoc[hist.built[2].doc] = 2

\* C12: no store entry maps a document to an empty list.
NoEmptyEntry ==
  \A d \in Docs : pendingByDoc[d] # 0 => arrays[pendingByDoc[d]] # <<>>

\* an accept or a reject has just removed the last change of a list and
\* the entry of its document is gone
LastRemoved ==
  /\ last.op \in {"accept:done", "reject:done"}
  /\ pendingByDoc[last.doc] = 0
  /\ \E r \in Built : hist.built[r].doc = last.doc /\ arrays[r] = <<>>

\* C13: when the host does not apply the edit an accept requested, the
\* store is left as it was: the change stays in the list and no range is
\* shifted.
EditFailureKeepsStore ==
  [][\A h \in Handlers :
       (hs[h].pc = "edit" /\ hs'[h].pc = "idle" /\ ~hs[h].fresh)
         => UNCHANGED <<pendingByDoc, arrays, objs>>]_vars

\* C14: a failure raised inside an accept or a reject is caught by the
\* handler and shown to the user as a notification.
FailureIsShown ==
  [][last'.op \in {"accept:threw", "reject:threw"} => Shown' # {}]_vars

\* ------------------------------------------------------------------------
\* The list markChanges builds, segment by segment
\* ------------------------------------------------------------------------
\* the number of line terminators in a text
Terminators(t) == Cardinality({k \in 1..Len(t) : t[k] = NL})

\* the lines of a diff segment: its terminated lines and a last line
\* without terminator, if it has one
SegmentLines(v) ==
  Terminators(v) + (IF Len(v) > 0 /\ v[Len(v)] # NL THEN 1 ELSE 0)

\* the local lines before segment i: those of the equal and removed
\* segments before it
RECURSIVE LocalLinesBefore(_, _)
LocalLinesBefore(diffs, i) ==
  IF i = 1 THEN 0
  ELSE LocalLinesBefore(diffs, i - 1)
       + (IF diffs[i - 1].added THEN 0 ELSE SegmentLines(diffs[i - 1].value))

\* segment i is a removed segment with an added segment right after it
Replaces(diffs, i) ==
  diffs[i].removed /\ i < Len(diffs) /\ diffs[i + 1].added

\* segment i is an added segment with no removed segment right before it
PureAdded(diffs, i) ==
  diffs[i].added /\ ~(i > 1 /\ diffs[i - 1].removed)

\* segment i is a removed segment with no added segment right after it
PureRemoved(diffs, i) == diffs[i].removed /\ ~Replaces(diffs, i)

\* the position in the built list of the change for segment i
ChangeNo(diffs, i) ==
  Cardinality({j \in 1..i : diffs[j].removed \/ PureAdded(diffs, j)})

\* the part of the text t inside the range r
Covered(t, r) == SubSeq(t, OffsetAt(t, r.start) + 1, OffsetAt(t, r.end))

\* the step is markChanges storing a list
Marks == pull.pc = "show" /\ last'.op = "pull:marked"

\* the document, the segments and the list of a step that Marks
MarkedDoc == docText[pull.files[pull.k].doc]
MarkedList ==
  LET a == arrays'[pendingByDoc'[pull.files[pull.k].doc]]
  IN [k \in 1..Len(a) |-> objs'[a[k]]]

\* the text after accepting, on the text t, the only change markChanges
\* builds for t and the segments diffs
AcceptOnly(t, diffs) ==
  LET c == markChanges(t, diffs, 1).pending[1]
  IN ReplaceRange(t, EditOf(t, c).range, EditOf(t, c).text)

\* C15: a removed segment with an added segment right after it yields one
\* change of kind changed, from column 0 of the first removed line to the
\* end of the last removed line with its line break, whose remoteText is the
\* added segment; the list has one change per replaced, removed or added
\* block.  For local "a\nb\nc\n" and remote "a\nB\nc\n": one changed
\* change on line 1 with remoteText "B\n", and accepting it gives the remote.
ReplacementMerge ==
  /\ LET t == <<"a", NL, "b", NL, "c", NL>>
         r == <<"a", NL, "B", NL, "c", NL>>
     IN \A ds \in diffLines(t, r) :
          /\ markChanges(t, ds, 1).pending =
               <<[id |-> 1, kind |-> "changed",
                  range |-> Rng(Pos(1, 0), Pos(2, 0)),
                  remoteText |-> <<"B", NL>>]>>
          /\ AcceptOnly(t, ds) = r
  /\ [][Marks =>
         /\ Len(MarkedList) = ChangeNo(pull.diffs, Len(pull.diffs))
         /\ \A i \in 1..Len(pull.diffs) :
              Replaces(pull.diffs, i) =>
                LET c == MarkedList[ChangeNo(pull.diffs, i)]
                IN /\ c.kind = "changed"
                   /\ c.range.start = Pos(LocalLinesBefore(pull.diffs, i), 0)
                   /\ normalize(Covered(MarkedDoc, c.range))
                        = pull.diffs[i].value
                   /\ c.remoteText = pull.diffs[i + 1].value]_vars

\* markChanges stored a changed change that follows an earlier change
MergedStored ==
  /\ last.op = "pull:marked"
  /\ \E k \in 2..Len(Pending("d1")) : Pending("d1")[k].kind = "changed"

\* the step is the accept of handler 1 completing, for a change of kind k
Accepts(k) ==
  /\ hs[1].pc = "edit" /\ hs'[1].pc = "idle"
  /\ last'.op = "accept:done"
  /\ objs[hs[1].ch].kind = k

\* C16: an added segment with no removed segment before it yields one
\* change of kind added with the empty range at column 0 of the line the
\* local cursor is on and the segment as remoteText, and accepting it
\* inserts that text at the start of the range.  For local "a\nb\n" and
\* remote "a\nX\nb\n": one added change at line 1 with remoteText "X\n",
\* and accepting it gives the remote.
PureAddition ==
  /\ LET t == <<"a", NL, "b", NL>>
         r == <<"a", NL, "X", NL, "b", NL>>
     IN \A ds \in diffLines(t, r) :
          /\ markChanges(t, ds, 1).pending =
               <<[id |-> 1, kind |-> "added",
                  range |-> Rng(Pos(1, 0), Pos(1, 0)),
                  remoteText |-> <<"X", NL>>]>>
          /\ AcceptOnly(t, ds) = r
  /\ [][/\ Marks =>
            \A i \in 1..Len(pull.diffs) :
              PureAdded(pull.diffs, i) =>
                LET c == MarkedList[ChangeNo(pull.diffs, i)]
                    li == LocalLinesBefore(pull.diffs, i)
                IN /\ c.kind = "added"
                   /\ c.range = Rng(Pos(li, 0), Pos(li, 0))
                   /\ c.remoteText = pull.diffs[i].value
        /\ Accepts("added") =>
            LET c == objs[hs[1].ch]
                t == docText[hs[1].doc]
                at == OffsetAt(t, c.range.start)
            IN docText'[hs[1].doc] =
                 SubSeq(t, 1, at) \o c.remoteText \o SubSeq(t, at + 1, Len(t))
       ]_vars

\* an added change that is not at the end of the document was accepted
AddedAccepted ==
  /\ last.op = "accept:done"
  /\ \E r \in Built : \E i \in BuiltIdx(r) :
       /\ hist.built[r].list[i].id = last.id
       /\ hist.built[r].list[i].kind = "added"
       /\ hist.built[r].list[i].range.start.line
            < LineCount(hist.built[r].text) - 1

\* C17: a removed segment with no added segment after it yields one change
\* of kind removed with empty remoteText whose range covers the removed
\* lines with the line break of the last one, and accepting it deletes that
\* range.  For local "a\nb\nc\n" and remote "a\nc\n": one removed change
\* spanning line 1, and accepting it gives the remote.
PureDeletion ==
  /\ LET t == <<"a", NL, "b", NL, "c", NL>>
         r == <<"a", NL, "c", NL>>
     IN \A ds \in diffLines(t, r) :
          /\ markChanges(t, ds, 1).pending =
               <<[id |-> 1, kind |-> "removed",
                  range |-> Rng(Pos(1, 0), Pos(2, 0)),
                  remoteText |-> <<>>]>>
          /\ AcceptOnly(t, ds) = r
  /\ [][/\ Marks =>
            \A i \in 1..Len(pull.diffs) :
              PureRemoved(pull.diffs, i) =>
                LET c == MarkedList[ChangeNo(pull.diffs, i)]
                IN /\ c.kind = "removed"
                   /\ c.remoteText = <<>>
                   /\ c.range.start = Pos(LocalLinesBefore(pull.diffs, i), 0)
                   /\ normalize(Covered(MarkedDoc, c.range))
                        = pull.diffs[i].value
        /\ Accepts("removed") =>
            LET c == objs[hs[1].ch]
                t == docText[hs[1].doc]
            IN docText'[hs[1].doc] =
                 SubSeq(t, 1, OffsetAt(t, c.range.start))
                   \o SubSeq(t, OffsetAt(t, c.range.end) + 1, Len(t))
       ]_vars

\* a removed change that covers lines in the middle of the document was
\* accepted
RemovedAccepted ==
  /\ last.op = "accept:done"
  /\ \E r \in Built : \E i \in BuiltIdx(r) :
       /\ hist.built[r].list[i].id = last.id
       /\ hist.built[r].list[i].kind = "removed"
       /\ hist.built[r].list[i].range.start.line > 0
       /\ hist.built[r].list[i].range.end.character = 0

\* the step is the pull reading and comparing its current file
Compares == pull.pc = "read" /\ last'.op = "pull:read"

\* C18: when the normalized local text of a pulled file equals its
\* normalized remote text, the diff has no added or removed segment and the
\* pull goes on to the next file: nothing is opened or marked for this one,
\* no store entry is made, no id is used and nothing is painted.
NoDivergence ==
  [][(Compares /\ normalize(disk'[pull.files[pull.k].doc])
                   = normalize(pull.files[pull.k].remote))
       => /\ \A ds \in diffLines(normalize(disk'[pull.files[pull.k].doc]),
                                normalize(pull.files[pull.k].remote)) :
               \A i \in 1..Len(ds) : ~ds[i].added /\ ~ds[i].removed
          /\ pull'.pc = "idle" \/ (pull'.pc = "read" /\ pull'.k = pull.k + 1)
          /\ UNCHANGED <<pendingByDoc, arrays, objs, nextChangeId, painted,
                         docText, visible>>]_vars

\* a pull found a local file that differs from the remote text only in
\* what normalize removes, and finished
NothingToReview ==
  /\ last.op = "pull:read"
  /\ pull.pc = "idle"
  /\ disk["d1"] # normalize(disk["d1"])
  /\ \A d \in Docs : pendingByDoc[d] = 0
  /\ "No changes found" \in notice

\* C19: refreshDecorationsFor on a document that no visible editor shows
\* paints nothing, raises nothing, and leaves the store, the id counter,
\* the files and the open documents as they were.
RenderHiddenIsNoOp ==
  [][\A d \in Docs :
       (last'.op = "refresh" /\ last'.doc = d /\ d \notin visible)
         => /\ notice' = {}
            /\ UNCHANGED <<painted, pendingByDoc, arrays, objs, nextChangeId,
                           disk, docText, visible, pull, hs>>]_vars

\* a document with pending changes, hidden behind another one, was refreshed
HiddenRefreshed ==
  /\ last.op = "refresh"
  /\ last.doc \in Docs \ visible
  /\ visible # {}
  /\ pendingByDoc[last.doc] # 0
  /\ painted[last.doc] = NoDecos

\* C20: a pulled file that is missing locally is written with the remote
\* content before the comparison, and the pull then finds nothing to review
\* in it: the file is not opened or marked, and the store, the id counter
\* and the decorations stay as they were.
CreatedFileHasNoChanges ==
  [][(Compares /\ disk[pull.files[pull.k].doc] = Absent)
       => /\ disk'[pull.files[pull.k].doc] = pull.files[pull.k].remote
          /\ "New file created" \in notice'
          /\ pull'.pc = "idle" \/ (pull'.pc = "read" /\ pull'.k = pull.k + 1)
          /\ pull'.pc = "idle" \/ pull'.changedFiles = pull.changedFiles
          /\ UNCHANGED <<pendingByDoc, arrays, objs, nextChangeId, painted,
                         docText, visible>>]_vars

\* a pull created the first document with a non-empty remote text
FileCreated ==
  /\ last.op = "pull:read"
  /\ "New file created" \in notice
  /\ "No changes found" \in notice
  /\ disk["d1"] \notin {Absent, <<>>}
  /\ pendingByDoc["d1"] = 0
  /\ docText["d1"] = Closed

\* handler h completes an accept whose edit the host applied, for a change
\* of a list no accept has touched: the range is the one markChanges built
FirstAccept(h) ==
  /\ hs[h].pc = "edit" /\ hs'[h].pc = "idle" /\ hs[h].fresh
  /\ \A a \in 1..Len(objs) : hist.accepts[a] = 0

\* C21: for every change as markChanges built it, the lineDelta acceptChange
\* computes is the number of lines of the document after the edit minus
\* the number of lines before it.
LineDeltaIsExact ==
  [][\A h \in Handlers :
       FirstAccept(h) =>
         hs[h].lineDelta = LineCount(docText'[hs[h].doc])
                             - LineCount(docText[hs[h].doc])]_vars

\* handler h completes an accept without an error
Completes(h) ==
  hs[h].pc = "edit" /\ hs'[h].pc = "idle" /\ last'.op = "accept:done"

Superseded(h) ==
  /\ hs[h].pc = "edit" /\ hs'[h].pc = "idle"
  /\ pendingByDoc[hs[h].doc] > hs[h].pending

\* C23: when an accept that was suspended across a pull of its document
\* finishes, the store entry of the document is still the list that pull
\* built, with all of its changes.
PullWins ==
  [][\A h \in Handlers :
       Superseded(h) =>
         /\ pendingByDoc'[hs[h].doc] = pendingByDoc[hs[h].doc]
         /\ arrays'[pendingByDoc[hs[h].doc]] = arrays[pendingByDoc[hs[h].doc]]]_vars

\* the range r moved down by k lines
Shifted(r, k) ==
  Rng(Pos(r.start.line + k, r.start.character),
      Pos(r.end.line + k, r.end.character))

\* handler h completes the accept of a change that is still in its list and
\* that no other invocation has accepted
CompletesOwn(h) ==
  /\ Completes(h)
  /\ hist.accepts[hs[h].ch] = 0
  /\ \E p \in 1..Len(arrays[hs[h].pending]) :
       arrays[hs[h].pending][p] = hs[h].ch

\* C24: an accept removes from the list the change with its id and no
\* other, and shifts by its lineDelta the changes that follow that change
\* and no other, also when an accept of another change of the document
\* completed while the handler was suspended.
ExactRemoval ==
  [][\A h \in Handlers :
       CompletesOwn(h) =>
         LET arr == arrays[hs[h].pending]
             at == CHOOSE p \in 1..Len(arr) : arr[p] = hs[h].ch
         IN /\ arrays'[hs[h].pending]
                 = SelectSeq(arr, LAMBDA a : a # hs[h].ch)
            /\ \A k \in 1..Len(arr) :
                 k # at =>
                   objs'[arr[k]].range =
                     IF k > at THEN Shifted(objs[arr[k]].range, hs[h].lineDelta)
                     ELSE objs[arr[k]].range]_vars

\* the step is markChanges running, to its end or to an exception
RunsMarkChanges ==
  pull.pc = "show" /\ last'.op \in {"pull:marked", "pull:threw"}

\* C25: markChanges writes the store and the id counter in the one step in
\* which it has built the whole list: after that step the entry of the
\* document holds one change for every removed segment and every added
\* segment not merged into one, and the counter has advanced by that many;
\* when markChanges throws while it builds, the store and the counter are
\* left as they were.
AtomicPublish ==
  [][RunsMarkChanges =>
       IF last'.op = "pull:threw"
         THEN UNCHANGED <<pendingByDoc, arrays, objs, nextChangeId>>
         ELSE /\ Len(MarkedList) = ChangeNo(pull.diffs, Len(pull.diffs))
              /\ nextChangeId' = nextChangeId + Len(MarkedList)
              /\ \A k \in 1..Len(MarkedList) :
                   MarkedList[k].id = nextChangeId + k - 1]_vars

\* markChanges threw after it had built at least one change, when an
\* earlier pull had already handed out ids
FailedPartway ==
  /\ last.op = "pull:threw"
  /\ hist.partial > 0
  /\ nextChangeId > 1
  /\ Len(hist.built) > 0

\* the line count of a segment: its newline-separated pieces, minus one
\* if its text ends with a newline
PieceLines(v) ==
  Terminators(v) + 1 - (IF Len(v) > 0 /\ v[Len(v)] = NL THEN 1 ELSE 0)

\* the sum of the line counts of the equal and removed segments before
\* segment i
RECURSIVE CursorAt(_, _)
CursorAt(diffs, i) ==
  IF i = 1 THEN 0
  ELSE CursorAt(diffs, i - 1)
       + (IF diffs[i - 1].added THEN 0 ELSE PieceLines(diffs[i - 1].value))

\* C26: every change markChanges stores starts at column 0 of the line
\* whose number is the sum of the line counts of the equal and removed
\* segments before its segment; added segments, alone or merged into a
\* changed record, count for nothing.
LineCursor ==
  [][Marks =>
       \A i \in 1..Len(pull.diffs) :
         (pull.diffs[i].removed \/ PureAdded(pull.diffs, i)) =>
           MarkedList[ChangeNo(pull.diffs, i)].range.start
             = Pos(CursorAt(pull.diffs, i), 0)]_vars

\* a stored list in which a change follows an added change and starts
\* below the first line
CursorAdvanced ==
  /\ last.op = "pull:marked"
  /\ \E r \in Built : \E i \in BuiltIdx(r) :
       /\ i > 1
       /\ hist.built[r].list[i - 1].kind \in {"added", "changed"}
       /\ hist.built[r].list[i].range.start.line > 1

\* the document a step paints: the one markChanges, a completed accept or
\* reject, or a refresh of a visible document sets decorations on
PaintedDoc ==
  IF last'.op = "pull:marked" THEN pull.files[pull.k].doc ELSE last'.doc

Paints ==
  /\ last'.op \in {"pull:marked", "accept:done", "reject:done", "refresh"}
  /\ PaintedDoc \in visible'
  /\ "unhandled rejection" \notin notice'

\* the list the store holds for d after the step
PendingAfter(d) ==
  IF pendingByDoc'[d] = 0 THEN <<>>
  ELSE [i \in 1..Len(arrays'[pendingByDoc'[d]]) |->
          objs'[arrays'[pendingByDoc'[d]][i]]]

\* C27: whenever a change whose stored range ends at column 0 of a line
\* below the first is painted, the painted range ends at the end of the
\* line before, whichever operation paints it.
DisplayTrimmed ==
  [][Paints =>
       \A k \in {"removed", "changed", "added"} :
         \A j \in 1..Len(painted'[PaintedDoc][k]) :
           \A i \in 1..Len(PendingAfter(PaintedDoc)) :
             LET e == painted'[PaintedDoc][k][j]
                 c == PendingAfter(PaintedDoc)[i]
             IN (c.id = e.id /\ c.range.end.character = 0
                   /\ c.range.end.line > 0)
                  => e.range.end =
                       Pos(c.range.end.line - 1,
                           LineEndChar(docText'[PaintedDoc],
                                       c.range.end.line - 1))]_vars

\* the step renders a visible document: on focus, after an accept or
\* after a reject
Renders ==
  /\ last'.op \in {"accept:done", "reject:done", "refresh"}
  /\ last'.doc \in visible'

\* the ids of the changes of kind k in a list, in list order
IdsOfKind(list, k) ==
  LET sel == SelectSeq(list, LAMBDA c : c.kind = k)
  IN [i \in 1..Len(sel) |-> sel[i].id]

\* C28: every render of a visible document completes and paints three
\* groups that split the list the store holds for the document by kind,
\* each change once, under its own id.
FullRepaint ==
  [][Renders =>
       /\ "unhandled rejection" \notin notice'
       /\ \A k \in {"removed", "changed", "added"} :
            [j \in 1..Len(painted'[last'.doc][k]) |->
               painted'[last'.doc][k][j].id]
              = IdsOfKind(PendingAfter(last'.doc), k)]_vars

\* the step is a step of the accept command
AcceptStep ==
  last'.op \in {"accept:no-entry", "accept:no-id", "accept:start",
                "accept:open", "accept:show", "accept:done", "accept:threw"}

\* the step completes an accept that leaves its list empty and the
\* document without a store entry
LeavesEmpty ==
  /\ last'.op = "accept:done"
  /\ pendingByDoc'[last'.doc] = 0
  /\ \E h \in Handlers :
       /\ hs[h].pc = "edit" /\ hs'[h].pc = "idle"
       /\ arrays'[hs[h].pending] = <<>>

\* C29: the accept command shows the completion notification in exactly
\* the steps in which it completes and leaves its list empty, with the
\* store entry of the document deleted; an accept that leaves changes
\* pending, a miss, and an accept that is still under way show none.
CompletionNotice ==
  [][AcceptStep =>
       (("All changes accepted" \in Shown') <=> LeavesEmpty)]_vars

\* the last change of a list of several was accepted and the notification
\* shown
AllAccepted ==
  /\ last.op = "accept:done"
  /\ "All changes accepted" \in Shown
  /\ pendingByDoc[last.doc] = 0
  /\ \E r \in Built :
       /\ hist.built[r].doc = last.doc
       /\ Len(hist.built[r].list) > 1
       /\ \E i \in BuiltIdx(r) : hist.built[r].list[i].id = last.id

\* no change of list r has been re-anchored: every accept so far was of a
\* change with nothing pending after it that it could move, as when the
\* changes are accepted from the last list entry to the first
Unshifted(r) ==
  \A i \in BuiltIdx(r) :
    objs[AddrOf(r, i)].range = hist.built[r].list[i].range

\* C30: once every change of a list has been accepted, from the last entry
\* of the list to the first, the document text is the normalized remote
\* text, whatever the local file and the remote text were.
DescendingRoundTrip ==
  \A r \in Built :
    (Quiet /\ AcceptedOnce(r) /\ Unshifted(r))
      => docText[hist.built[r].doc] = hist.built[r].remote

\* the pull finds its current file identical to the remote text and ends
\* without an error
FindsIdentical ==
  /\ Compares
  /\ normalize(disk'[pull.files[pull.k].doc])
       = normalize(pull.files[pull.k].remote)
  /\ pull'.pc = "idle"
  /\ "Pull error" \notin notice'

\* C31: when a pull that found a document identical to its remote text has
\* completed, the document has no store entry, whatever an earlier pull
\* had stored for it.
IdenticalHasNoEntry ==
  [][FindsIdentical => pendingByDoc'[pull.files[pull.k].doc] = 0]_vars

\* every change of list r has been accepted once or rejected, and no
\* command is under way
Resolved(r) ==
  /\ Quiet
  /\ \A i \in BuiltIdx(r) :
       \/ Accepted(r, i)
       \/ hist.accepts[AddrOf(r, i)] = 0 /\ AddrOf(r, i) \in hist.rejects

\* C32: with commands run one after the other and no pull in between, an
\* accept or reject that finds its change always completes and makes the
\* list of its document one shorter, no other step makes a list longer, and
\* once every change of a list has been resolved the document has no store
\* entry.
Progress ==
  [][/\ last'.op # "accept:threw"
     /\ last'.op \in {"accept:done", "reject:done"} =>
          Len(PendingAfter(last'.doc)) = Len(Pending(last'.doc)) - 1
     /\ last'.op # "pull:marked" =>
          \A d \in Docs : Len(PendingAfter(d)) <= Len(Pending(d))
     /\ \A r \in 1..Len(hist'.built) :
          Resolved(r)' => pendingByDoc'[hist'.built[r].doc] = 0]_vars

\* a list of several changes was resolved, partly by accepts and partly by
\* rejects, and its entry is gone
AllResolved ==
  /\ last.op \in {"accept:done", "reject:done"}
  /\ \E r \in Built :
       /\ Resolved(r)
       /\ Len(hist.built[r].list) > 1
       /\ pendingByDoc[hist.built[r].doc] = 0
       /\ \E i \in BuiltIdx(r) : Accepted(r, i)
       /\ \E i \in BuiltIdx(r) : AddrOf(r, i) \in hist.rejects

====
